---- MODULE Spec2Model ----
\* A model of bowmana/audiobook_generator: the retry wrapper around the
\* OpenAI calls (openaihelpers.retry_on_rate_limit) and the per-chunk
\* pipeline driven by master_processor.process_book.
EXTENDS Integers, Sequences, FiniteSets, TLC

\* ---------------------------------------------------------------- bounds

\* An operation's behaviour is a number of leading capacity-exhaustion
\* failures (0..MaxFails) followed by a final behaviour.
MaxFails == 10

\* time.sleep(d) returns after d..d+MaxOvershoot seconds.
MaxOvershoot == 1

\* The book splits into 0..MaxChunks chunks.
MaxChunks == 3

\* split_text_into_chunks is given texts of 0..MaxLen characters and chunk
\* sizes 1..MaxLen + 1.
MaxLen == 4

\* estimate_tts_cost is given texts of 0..MaxChars characters, and of 1000.
MaxChars == 12

\* ------------------------------------------------------ program constants

max_retries == 10

hourly_wait_time == 3600

sleep_interval == 300

\* PRICING['tts'] = 0.015 dollar per 1000 characters.  Costs are counted in
\* units of 0.0001 dollar, the precision round(cost, 4) keeps.
tts_rate == 150

\* --------------------------------------------------------------- errors

\* The exceptions an operation can raise.  The first is the openai type
\* RateLimitError; the next two are OpenAIError instances whose message
\* holds that text; APIConnectionError is any other OpenAIError; Exception
\* is an error that is no OpenAIError (requests, OSError, ...).
OpenAIErrors ==
    {"RateLimitError", "insufficient_quota", "exceeded your current quota",
     "APIConnectionError"}

OtherErrors == {"Exception"}

\* Capacity exhaustion as the specification defines it: quota exceeded or
\* rate limited.
CapacityErrors ==
    {"RateLimitError", "insufficient_quota", "exceeded your current quota"}

HardErrors == (OpenAIErrors \cup OtherErrors) \ CapacityErrors

\* except OpenAIError as e
IsOpenAIError(e) == e \in OpenAIErrors

IsCapacityExhaustionAnyOpenAI(e) == IsOpenAIError(e)

\* 'insufficient_quota' in msg or 'exceeded your current quota' in msg or
\* isinstance(e, RateLimitError)
IsCapacityExhaustion(e) ==
    \/ e = "insufficient_quota"
    \/ e = "exceeded your current quota"
    \/ e = "RateLimitError"

\* ----------------------------------------------------------- operations

\* The values an operation can return.  "None" is Python's None.
ReturnValues == {"value", "None"}

EstimatedTokenValues == {0, 60000}

\* An operation handed to retry_on_rate_limit.  A scripted operation (name
\* "func") raises capacity exhaustion on its first `fails` invocations and
\* then behaves as `end`, a return value or a hard error.
Scripts ==
    [name : {"func"}, fails : 0..MaxFails, end : ReturnValues \cup HardErrors,
     returns : {ReturnValues}]

NoOp == [name |-> "none", fails |-> 0, end |-> "value", returns |-> {}]

\* What the j-th invocation of operation o does: the value it returns or the
\* error it raises.
OpOutcomes(o, j) ==
    IF o.name = "func"
      THEN IF j <= o.fails THEN CapacityErrors ELSE {o.end}
      ELSE CapacityErrors \cup HardErrors \cup o.returns

\* The operations of the pipeline: each may, on any invocation, return or
\* raise any error.  The chat completion's content is valid JSON or not.
PipelineOp(name) ==
    [name |-> name, fails |-> 0, end |-> "any",
     returns |-> IF name = "_do_analysis" THEN {"json", "malformed"}
                                          ELSE {"value"}]

OpWritesFixed(o, n) == IF o.name = "_do_tts" THEN {<<"audio", 1>>} ELSE {}

\* The files an operation writes when it returns: _do_tts streams the speech
\* to pride_and_prejudice_part_<chunk_number>.mp3.
OpWrites(o, n) == IF o.name = "_do_tts" THEN {<<"audio", n>>} ELSE {}

Min(a, b) == IF a < b THEN a ELSE b

VARIABLES
    rpc,               \* position in retry_on_rate_limit
    op,                \* the operation (func) of the call in progress
    estimated_tokens,  \* the estimated_tokens argument
    attempt,           \* local attempt
    start_time,        \* local start_time
    now,               \* time.time(), measured from the last capacity error
    result,            \* the value the call returned
    raisedErr,         \* the exception that left the call
    invocations,       \* number of times func was invoked in this call
    capErrors,         \* number of capacity errors func raised in this call
    cooldowns,         \* number of completed cooldown waits in this call
    sleeps,            \* number of time.sleep calls in this call
    prev,              \* the preceding call of the harness
    ppc,               \* position in process_book
    chunks,            \* len(chunks)
    pos,               \* number of chunks the for loop has taken
    chunk_number,      \* chunk_number of the process_chunk call
    all_video_parts,   \* the list all_video_parts
    analysis,          \* generate_book_art's local analysis
    files,             \* the files in the working directory
    stages,            \* stages invoked for the current chunk
    started,           \* the chunk numbers process_chunk was called with
    finished,          \* the chunk numbers whose process_chunk call ended
    failed,            \* the chunk numbers whose process_chunk call failed
    concat_input,      \* the list handed to combine_videos
    writes,            \* the files the current process_chunk call has written
    fpc,               \* position of a caller of the pure functions
    text,              \* the text argument, a sequence of characters
    chunk_size,        \* the chunk_size argument
    split_chunks,      \* what split_text_into_chunks returned
    char_counts,       \* len(text) of the texts given to estimate_tts_cost
    tts_costs,         \* the 'cost' entries estimate_tts_cost returned
    book_estimate      \* what estimate_full_book_cost returned

rvars ==
    <<rpc, op, estimated_tokens, attempt, start_time, now, result, raisedErr,
      invocations, capErrors, cooldowns, sleeps>>

pvars ==
    <<ppc, chunks, pos, chunk_number, all_video_parts, analysis, stages,
      started, finished, failed, concat_input>>

fvars ==
    <<fpc, text, chunk_size, split_chunks, char_counts, tts_costs,
      book_estimate>>

vars == <<rvars, prev, pvars, files, writes, fvars>>

\* ------------------------------------------------- retry_on_rate_limit

\* Entry of retry_on_rate_limit(func, *args, estimated_tokens=et): the
\* locals of a fresh call.
ExecuteKeepAttempt(o, et) ==
    /\ rpc' = "while"
    /\ op' = o
    /\ estimated_tokens' = et
    /\ start_time' = 0
    /\ now' = 0
    /\ result' = "unset"
    /\ raisedErr' = "none"
    /\ invocations' = 0
    /\ capErrors' = 0
    /\ cooldowns' = 0
    /\ sleeps' = 0
    /\ UNCHANGED attempt

Execute(o, et) ==
    /\ rpc' = "while"
    /\ op' = o
    /\ estimated_tokens' = et
    /\ attempt' = 0
    /\ start_time' = 0
    /\ now' = 0
    /\ result' = "unset"
    /\ raisedErr' = "none"
    /\ invocations' = 0
    /\ capErrors' = 0
    /\ cooldowns' = 0
    /\ sleeps' = 0

WhileTestOffByOne ==
    /\ rpc = "while"
    /\ IF attempt + 1 < max_retries
         THEN rpc' = "try" /\ UNCHANGED result
         ELSE rpc' = "returned" /\ result' = "None"
    /\ UNCHANGED <<op, estimated_tokens, attempt, start_time, now, raisedErr,
                   invocations, capErrors, cooldowns, sleeps>>
    /\ UNCHANGED <<prev, pvars, files, writes, fvars>>

WhileTestGated ==
    /\ rpc = "while"
    /\ IF attempt < max_retries /\ estimated_tokens <= 30000
         THEN rpc' = "try" /\ UNCHANGED result
         ELSE rpc' = "returned" /\ result' = "None"
    /\ UNCHANGED <<op, estimated_tokens, attempt, start_time, now, raisedErr,
                   invocations, capErrors, cooldowns, sleeps>>
    /\ UNCHANGED <<prev, pvars, files, writes, fvars>>

\* while attempt < max_retries: ... ; falling out of the loop returns None.
WhileTest ==
    /\ rpc = "while"
    /\ IF attempt < max_retries
         THEN rpc' = "try" /\ UNCHANGED result
         ELSE rpc' = "returned" /\ result' = "None"
    /\ UNCHANGED <<op, estimated_tokens, attempt, start_time, now, raisedErr,
                   invocations, capErrors, cooldowns, sleeps>>
    /\ UNCHANGED <<prev, pvars, files, writes, fvars>>

AttemptReturnsDropsResult ==
    /\ rpc = "try"
    /\ \E x \in OpOutcomes(op, invocations + 1) \cap op.returns :
          /\ result' = "None"
          /\ rpc' = "returned"
    /\ invocations' = invocations + 1
    /\ files' = files \cup OpWrites(op, chunk_number)
    /\ writes' = writes \cup OpWrites(op, chunk_number)
    /\ UNCHANGED <<op, estimated_tokens, attempt, start_time, now, raisedErr,
                   capErrors, cooldowns, sleeps>>
    /\ UNCHANGED <<prev, pvars, fvars>>

\* result = func(*args, **kwargs); return result
AttemptReturns ==
    /\ rpc = "try"
    /\ \E x \in OpOutcomes(op, invocations + 1) \cap op.returns :
          /\ result' = x
          /\ rpc' = "returned"
    /\ invocations' = invocations + 1
    /\ files' = files \cup OpWrites(op, chunk_number)
    /\ writes' = writes \cup OpWrites(op, chunk_number)
    /\ UNCHANGED <<op, estimated_tokens, attempt, start_time, now, raisedErr,
                   capErrors, cooldowns, sleeps>>
    /\ UNCHANGED <<prev, pvars, fvars>>

AttemptRateLimitedAlwaysWaits ==
    /\ rpc = "try"
    /\ \E e \in OpOutcomes(op, invocations + 1) \ op.returns :
          /\ IsOpenAIError(e) /\ IsCapacityExhaustion(e)
          /\ capErrors' = capErrors + (IF e \in CapacityErrors THEN 1 ELSE 0)
          /\ attempt' = attempt + 1
          /\ now' = 0
          /\ rpc' = "cooldown"
          /\ start_time' = now'
          /\ UNCHANGED result
    /\ invocations' = invocations + 1
    /\ UNCHANGED <<op, estimated_tokens, raisedErr, cooldowns, sleeps>>
    /\ UNCHANGED <<prev, pvars, files, writes, fvars>>

AttemptRateLimitedRaisesAtMax ==
    /\ rpc = "try"
    /\ \E e \in OpOutcomes(op, invocations + 1) \ op.returns :
          /\ IsOpenAIError(e) /\ IsCapacityExhaustion(e)
          /\ capErrors' = capErrors + (IF e \in CapacityErrors THEN 1 ELSE 0)
          /\ attempt' = attempt + 1
          /\ now' = 0
          /\ IF attempt' >= max_retries
               THEN /\ rpc' = "raised"
                    /\ raisedErr' = e
                    /\ UNCHANGED <<start_time, result>>
               ELSE /\ rpc' = "cooldown"
                    /\ start_time' = now'
                    /\ UNCHANGED <<result, raisedErr>>
    /\ invocations' = invocations + 1
    /\ UNCHANGED <<op, estimated_tokens, cooldowns, sleeps>>
    /\ UNCHANGED <<prev, pvars, files, writes, fvars>>

\* except OpenAIError as e, classified as quota or rate limit: count the
\* attempt, return None at max_retries, else start the hourly wait.
AttemptRateLimited ==
    /\ rpc = "try"
    /\ \E e \in OpOutcomes(op, invocations + 1) \ op.returns :
          /\ IsOpenAIError(e) /\ IsCapacityExhaustion(e)
          /\ capErrors' = capErrors + (IF e \in CapacityErrors THEN 1 ELSE 0)
          /\ attempt' = attempt + 1
          /\ now' = 0
          /\ IF attempt' >= max_retries
               THEN /\ rpc' = "returned"
                    /\ result' = "None"
                    /\ UNCHANGED start_time
               ELSE /\ rpc' = "cooldown"
                    /\ start_time' = now'
                    /\ UNCHANGED result
    /\ invocations' = invocations + 1
    /\ UNCHANGED <<op, estimated_tokens, raisedErr, cooldowns, sleeps>>
    /\ UNCHANGED <<prev, pvars, files, writes, fvars>>

\* Any other error: an OpenAIError is re-raised (raise e), an exception that
\* is no OpenAIError is not caught at all.
AttemptRaises ==
    /\ rpc = "try"
    /\ \E e \in OpOutcomes(op, invocations + 1) \ op.returns :
          /\ ~(IsOpenAIError(e) /\ IsCapacityExhaustion(e))
          /\ capErrors' = capErrors + (IF e \in CapacityErrors THEN 1 ELSE 0)
          /\ raisedErr' = e
          /\ rpc' = "raised"
    /\ invocations' = invocations + 1
    /\ UNCHANGED <<op, estimated_tokens, attempt, start_time, now, result,
                   cooldowns, sleeps>>
    /\ UNCHANGED <<prev, pvars, files, writes, fvars>>

InCooldownForever == now >= start_time

InCooldownOneSleep == now - start_time < sleep_interval

\* while time.time() - start_time < hourly_wait_time
InCooldown == now - start_time < hourly_wait_time

\* time_left = hourly_wait_time - (time.time() - start_time);
\* if time_left > 0: time.sleep(min(300, time_left))
CooldownSleep ==
    /\ rpc = "cooldown"
    /\ InCooldown
    /\ LET time_left == hourly_wait_time - (now - start_time)
       IN  IF time_left > 0
             THEN \E over \in 0..MaxOvershoot :
                    /\ now' = now + Min(sleep_interval, time_left) + over
                    /\ sleeps' = sleeps + 1
             ELSE UNCHANGED <<now, sleeps>>
    /\ UNCHANGED <<rpc, op, estimated_tokens, attempt, start_time, result,
                   raisedErr, invocations, capErrors, cooldowns>>
    /\ UNCHANGED <<prev, pvars, files, writes, fvars>>

\* The wait is over: continue with the next iteration of the retry loop.
CooldownOver ==
    /\ rpc = "cooldown"
    /\ ~InCooldown
    /\ rpc' = "while"
    /\ cooldowns' = cooldowns + 1
    /\ UNCHANGED <<op, estimated_tokens, attempt, start_time, now, result,
                   raisedErr, invocations, capErrors, sleeps>>
    /\ UNCHANGED <<prev, pvars, files, writes, fvars>>

Ended == rpc \in {"returned", "raised"}

\* ----------------------------------------- a caller making successive calls

\* What a finished call did.
Summary ==
    [op |-> op, estimated_tokens |-> estimated_tokens, outcome |-> rpc,
     result |-> result, raisedErr |-> raisedErr, invocations |-> invocations,
     cooldowns |-> cooldowns,
     exhausted |-> (rpc = "returned" /\ attempt >= max_retries)]

NoPrev ==
    [op |-> NoOp, estimated_tokens |-> 0, outcome |-> "none",
     result |-> "unset", raisedErr |-> "none", invocations |-> 0,
     cooldowns |-> 0, exhausted |-> FALSE]

\* The caller calls retry_on_rate_limit with some operation and estimate.
\* prev keeps the preceding call when it ran the same operation, and
\* otherwise only whether it used up its retries.
HarnessCall ==
    \E o \in Scripts, et \in EstimatedTokenValues :
        /\ ppc = "caller"
        /\ rpc = "idle"
        /\ Execute(o, et)
        /\ prev' = IF prev.op = o
                     THEN prev
                     ELSE [NoPrev EXCEPT !.exhausted = prev.exhausted]
        /\ UNCHANGED <<pvars, files, writes, fvars>>

\* The call returned or raised; the caller goes on.
HarnessReturn ==
    /\ Ended
    /\ rpc' = "idle"
    /\ ppc = "caller"
    /\ prev' = Summary
    /\ UNCHANGED <<op, estimated_tokens, attempt, start_time, now, result,
                   raisedErr, invocations, capErrors, cooldowns, sleeps>>
    /\ UNCHANGED <<pvars, files, writes, fvars>>

\* estimate_full_book_cost has not returned.
NoEstimate == [number_of_chunks |-> 0, chunk_estimates |-> <<>>]

\* No caller of the pure functions is at work.
InitNoFunctions ==
    /\ fpc = "off"
    /\ text = <<>>
    /\ chunk_size = 1
    /\ split_chunks = <<>>
    /\ char_counts = <<0, 0>>
    /\ tts_costs = <<0, 0, 0>>
    /\ book_estimate = NoEstimate

InitGovernor ==
    /\ rpc = "idle"
    /\ op = NoOp
    /\ estimated_tokens = 0
    /\ attempt = 0
    /\ start_time = 0
    /\ now = 0
    /\ result = "unset"
    /\ raisedErr = "none"
    /\ invocations = 0
    /\ capErrors = 0
    /\ cooldowns = 0
    /\ sleeps = 0

InitRetry ==
    /\ InitGovernor
    /\ prev = NoPrev
    /\ ppc = "caller"
    /\ chunks = 0
    /\ pos = 0
    /\ chunk_number = 0
    /\ all_video_parts = <<>>
    /\ analysis = "unset"
    /\ files = {}
    /\ stages = {}
    /\ started = <<>>
    /\ finished = {}
    /\ failed = {}
    /\ concat_input = <<>>
    /\ writes = {}
    /\ InitNoFunctions

NextRetry ==
    \/ HarnessCall
    \/ HarnessReturn
    \/ WhileTest
    \/ AttemptReturns
    \/ AttemptRateLimited
    \/ AttemptRaises
    \/ CooldownSleep
    \/ CooldownOver

SpecRetry == InitRetry /\ [][NextRetry]_vars

\* The same caller when every invocation of the operation returns or raises,
\* time.sleep returns, and the interpreter goes on running the call.
SpecRetryFair ==
    /\ SpecRetry
    /\ WF_vars(WhileTest)
    /\ WF_vars(AttemptReturns \/ AttemptRateLimited \/ AttemptRaises)
    /\ WF_vars(CooldownSleep)
    /\ WF_vars(CooldownOver)

\* ------------------------------------------------------ the book pipeline

VideoFile(n) == <<"video", n>>

AudioFile(n) == <<"audio", n>>

ImageFile(n) == <<"image", n>>

TempBackground == <<"temp_background", 0>>

FinalVideo == <<"complete", 0>>

\* Python's None as an entry of all_video_parts.
NoneValue == <<"None", 0>>

Range(q) == {q[k] : k \in 1..Len(q)}

ChunkNumberFromZero(p) == p

\* for i, chunk in enumerate(chunks, 1): the number of the chunk at position
\* p (from 0) of the list.
ChunkNumber(p) == p + 1

\* process_chunk returns v to process_book, which appends it.
ChunkReturns(v) ==
    /\ all_video_parts' = Append(all_video_parts, v)
    /\ finished' = finished \cup {chunk_number}
    /\ failed' = IF v = NoneValue THEN failed \cup {chunk_number} ELSE failed
    /\ ppc' = "loop"
    /\ rpc' = "idle"
    /\ UNCHANGED <<op, estimated_tokens, attempt, start_time, now, result,
                   raisedErr, invocations, capErrors, cooldowns, sleeps>>
    /\ UNCHANGED <<fvars, prev, chunks, pos, chunk_number, analysis, stages, started,
                   concat_input>>

\* An exception leaves process_chunk (except Exception: print; raise) and
\* then process_book, which has no handler.
ChunkRaises ==
    /\ finished' = finished \cup {chunk_number}
    /\ failed' = failed \cup {chunk_number}
    /\ ppc' = "chunk_error"
    /\ rpc' = "idle"
    /\ UNCHANGED <<op, estimated_tokens, attempt, start_time, now, result,
                   raisedErr, invocations, capErrors, cooldowns, sleeps>>
    /\ UNCHANGED <<fvars, prev, chunks, pos, chunk_number, all_video_parts, analysis,
                   stages, started, concat_input>>

\* The next stage of the chunk calls retry_on_rate_limit.
StageCalls(stage, name, pc) ==
    /\ stages' = stages \cup {stage}
    /\ ppc' = pc
    /\ \E et \in EstimatedTokenValues : Execute(PipelineOp(name), et)
    /\ UNCHANGED <<fvars, prev, chunks, pos, chunk_number, all_video_parts, started,
                   finished, failed, concat_input>>

\* The for loop of process_book takes the next chunk: process_chunk,
\* generate_book_art, analyze_text_context up to its retried call.
NextChunk ==
    /\ ppc = "loop"
    /\ pos < chunks
    /\ pos' = pos + 1
    /\ chunk_number' = ChunkNumber(pos)
    /\ started' = Append(started, chunk_number')
    /\ stages' = {"Analyze"}
    /\ analysis' = "unset"
    /\ writes' = {}
    /\ ppc' = "analyze"
    /\ \E et \in EstimatedTokenValues : Execute(PipelineOp("_do_analysis"), et)
    /\ UNCHANGED <<fvars, prev, chunks, all_video_parts, finished, failed,
                   concat_input, files>>

\* The analysis call raised.
AnalyzeRaises ==
    /\ ppc = "analyze"
    /\ rpc = "raised"
    /\ ChunkRaises
    /\ UNCHANGED <<files, writes>>

AnalyzeReturnsRaisesOnMalformed ==
    /\ ppc = "analyze"
    /\ rpc = "returned"
    /\ IF result = "malformed"
         THEN ChunkRaises /\ UNCHANGED <<analysis, files, writes>>
         ELSE /\ analysis' = IF result = "json" THEN "analysis" ELSE "None"
              /\ ppc' = "analyzed"
              /\ rpc' = "idle"
              /\ UNCHANGED <<op, estimated_tokens, attempt, start_time, now,
                             result, raisedErr, invocations, capErrors,
                             cooldowns, sleeps>>
              /\ UNCHANGED <<fvars, prev, chunks, pos, chunk_number,
                             all_video_parts, stages, started, finished,
                             failed, concat_input, files, writes>>

\* The analysis call returned: analyze_text_context returns None for None
\* and for content that json.loads rejects (JSONDecodeError is caught), and
\* the parsed analysis otherwise.
AnalyzeReturns ==
    /\ ppc = "analyze"
    /\ rpc = "returned"
    /\ analysis' = IF result = "json" THEN "analysis" ELSE "None"
    /\ ppc' = "analyzed"
    /\ rpc' = "idle"
    /\ UNCHANGED <<op, estimated_tokens, attempt, start_time, now, result,
                   raisedErr, invocations, capErrors, cooldowns, sleeps>>
    /\ UNCHANGED <<fvars, prev, chunks, pos, chunk_number, all_video_parts,
                   stages, started, finished, failed, concat_input, files,
                   writes>>

\* generate_book_art prints the analysis and calls generate_scene_image
\* with it, whatever it is.
GenerateSceneImage ==
    /\ ppc = "analyzed"
    /\ StageCalls("Illustrate", "_generate_image", "illustrate")
    /\ UNCHANGED <<analysis, files, writes>>

IllustrateRaises ==
    /\ ppc = "illustrate"
    /\ rpc = "raised"
    /\ ChunkRaises
    /\ UNCHANGED <<files, writes>>

IllustrateFailsGoesOn ==
    /\ ppc = "illustrate"
    /\ rpc = "returned"
    /\ result = "None"
    /\ StageCalls("Narrate", "_do_tts", "narrate")
    /\ UNCHANGED <<analysis, files, writes>>

\* generate_scene_image returned None: generate_book_art and process_chunk
\* return None.
IllustrateFails ==
    /\ ppc = "illustrate"
    /\ rpc = "returned"
    /\ result = "None"
    /\ ChunkReturns(NoneValue)
    /\ UNCHANGED <<files, writes>>

\* save_image fails (requests.get or the write raises).
SaveImageRaises ==
    /\ ppc = "illustrate"
    /\ rpc = "returned"
    /\ result # "None"
    /\ ChunkRaises
    /\ UNCHANGED <<files, writes>>

\* save_image writes generated_images/scene_<n>.png; process_chunk goes on
\* to generate_audio.
IllustrateReturns ==
    /\ ppc = "illustrate"
    /\ rpc = "returned"
    /\ result # "None"
    /\ files' = files \cup {ImageFile(chunk_number)}
    /\ writes' = writes \cup {ImageFile(chunk_number)}
    /\ StageCalls("Narrate", "_do_tts", "narrate")
    /\ UNCHANGED analysis

NarrateRaises ==
    /\ ppc = "narrate"
    /\ rpc = "raised"
    /\ ChunkRaises
    /\ UNCHANGED <<files, writes>>

\* generate_audio returned None: process_chunk returns None.
NarrateFails ==
    /\ ppc = "narrate"
    /\ rpc = "returned"
    /\ result = "None"
    /\ ChunkReturns(NoneValue)
    /\ UNCHANGED <<files, writes>>

\* create_video_with_audio starts with transcribe_audio.
NarrateReturns ==
    /\ ppc = "narrate"
    /\ rpc = "returned"
    /\ result # "None"
    /\ StageCalls("Caption", "_do_transcription", "caption")
    /\ UNCHANGED <<analysis, files, writes>>

CaptionRaises ==
    /\ ppc = "caption"
    /\ rpc = "raised"
    /\ ChunkRaises
    /\ UNCHANGED <<files, writes>>

\* transcribe_audio returned None: parse_srt(None) raises AttributeError.
CaptionFails ==
    /\ ppc = "caption"
    /\ rpc = "returned"
    /\ result = "None"
    /\ ChunkRaises
    /\ UNCHANGED <<files, writes>>

\* The rest of create_video_with_audio fails: before the try block the
\* resized background may stay behind, in it the finally clause removes it.
AssembleRaises ==
    /\ ppc = "caption"
    /\ rpc = "returned"
    /\ result # "None"
    /\ \E in_try \in BOOLEAN :
          files' = IF in_try THEN files \ {TempBackground}
                             ELSE files \cup {TempBackground}
    /\ writes' = writes \cup {TempBackground}
    /\ ChunkRaises

\* The video chapter_<n>.mp4 is written and process_chunk returns its name.
AssembleReturns ==
    /\ ppc = "caption"
    /\ rpc = "returned"
    /\ result # "None"
    /\ files' = (files \cup {VideoFile(chunk_number)}) \ {TempBackground}
    /\ writes' = writes \cup {TempBackground, VideoFile(chunk_number)}
    /\ ChunkReturns(VideoFile(chunk_number))

\* The loop has taken every chunk: process_book calls combine_videos.
LoopEnds ==
    /\ ppc = "loop"
    /\ pos >= chunks
    /\ concat_input' = all_video_parts
    /\ ppc' = "combine"
    /\ UNCHANGED <<fvars, writes, rvars, prev, chunks, pos, chunk_number, all_video_parts,
                   analysis, stages, started, finished, failed, files>>

\* combine_videos writes the final video; VideoFileClip and
\* concatenate_videoclips need a non-empty list of files.
CombineReturns ==
    /\ ppc = "combine"
    /\ concat_input # <<>>
    /\ Range(concat_input) \subseteq files
    /\ files' = files \cup {FinalVideo}
    /\ ppc' = "cleanup"
    /\ UNCHANGED <<fvars, writes, rvars, prev, chunks, pos, chunk_number, all_video_parts,
                   analysis, stages, started, finished, failed, concat_input>>

\* combine_videos raises (always for a None entry).
CombineRaises ==
    /\ ppc = "combine"
    /\ ppc' = "combine_error"
    /\ UNCHANGED <<fvars, writes, rvars, prev, chunks, pos, chunk_number, all_video_parts,
                   analysis, stages, started, finished, failed, concat_input,
                   files>>

AudioFiles == {f \in files : f[1] = "audio"}

ImageFiles == {f \in files : f[1] = "image"}

\* cleanup_temp_files: the listed videos, then every
\* pride_and_prejudice_part_*.mp3, then every generated_images/scene_*.png.
CleanupReturns ==
    /\ ppc = "cleanup"
    /\ files' = files \ (Range(all_video_parts) \cup AudioFiles \cup ImageFiles)
    /\ ppc' = "done"
    /\ UNCHANGED <<fvars, writes, rvars, prev, chunks, pos, chunk_number, all_video_parts,
                   analysis, stages, started, finished, failed, concat_input>>

\* A removal raises: what was removed before it stays removed.
CleanupRaises ==
    /\ ppc = "cleanup"
    /\ \/ \E k \in 1..Len(all_video_parts) :
             files' = files \ {all_video_parts[j] : j \in 1..(k - 1)}
       \/ \E gone \in SUBSET AudioFiles :
             /\ gone # AudioFiles
             /\ files' = files \ (Range(all_video_parts) \cup gone)
       \/ \E gone \in SUBSET ImageFiles :
             /\ gone # ImageFiles
             /\ files' =
                  files \ (Range(all_video_parts) \cup AudioFiles \cup gone)
    /\ ppc' = "cleanup_error"
    /\ UNCHANGED <<fvars, writes, rvars, prev, chunks, pos, chunk_number, all_video_parts,
                   analysis, stages, started, finished, failed, concat_input>>

\* Files an earlier run left in the working directory: an image and a
\* speech file of a chunk number this run does not reach.
StaleFiles == {ImageFile(MaxChunks + 1), AudioFile(MaxChunks + 1)}

Init ==
    /\ InitGovernor
    /\ prev = NoPrev
    /\ ppc = "loop"
    /\ chunks \in 0..MaxChunks
    /\ pos = 0
    /\ chunk_number = 0
    /\ all_video_parts = <<>>
    /\ analysis = "unset"
    /\ files \in {{}, StaleFiles}
    /\ stages = {}
    /\ started = <<>>
    /\ finished = {}
    /\ failed = {}
    /\ concat_input = <<>>
    /\ writes = {}
    /\ InitNoFunctions

Next ==
    \/ NextChunk
    \/ WhileTest
    \/ AttemptReturns
    \/ AttemptRateLimited
    \/ AttemptRaises
    \/ CooldownSleep
    \/ CooldownOver
    \/ AnalyzeRaises
    \/ AnalyzeReturns
    \/ GenerateSceneImage
    \/ IllustrateRaises
    \/ IllustrateFails
    \/ SaveImageRaises
    \/ IllustrateReturns
    \/ NarrateRaises
    \/ NarrateFails
    \/ NarrateReturns
    \/ CaptionRaises
    \/ CaptionFails
    \/ AssembleRaises
    \/ AssembleReturns
    \/ LoopEnds
    \/ CombineReturns
    \/ CombineRaises
    \/ CleanupReturns
    \/ CleanupRaises

Spec == Init /\ [][Next]_vars

\* ------------------------------------------------------ the pure functions

Characters == {"a", "b"}

\* The texts of at most MaxLen characters.
Texts == UNION {[1..n -> Characters] : n \in 0..MaxLen}

ChunkSizes == 1..(MaxLen + 1)

CharCounts == (0..MaxChars) \cup {1000}

RECURSIVE PyRange(_, _, _)
\* list(range(start, stop, step)) for step >= 1
PyRange(start, stop, step) ==
    IF start >= stop THEN <<>>
                     ELSE <<start>> \o PyRange(start + step, stop, step)

SliceExclusive(s, i, j) == SubSeq(s, i + 1, Min(j, Len(s)) - 1)

\* s[i:j] for 0 <= i <= j: the characters at the positions i..j-1 (from 0),
\* as far as s has them.
Slice(s, i, j) == SubSeq(s, i + 1, Min(j, Len(s)))

\* [text[i:i+chunk_size] for i in range(0, len(text), chunk_size)]
split_text_into_chunks(t, n) ==
    LET starts == PyRange(0, Len(t), n)
    IN  [k \in 1..Len(starts) |-> Slice(t, starts[k], starts[k] + n)]

Round4Floor(m) == {m \div 1000}

\* round(x, 4) for x = m / 1000 units of 0.0001 dollar, in such units.  The
\* float x is not m / 1000 exactly: halfway between two units it lies just
\* above or just below, and round goes either way.
Round4(m) ==
    LET q == m \div 1000
        r == m % 1000
    IN  IF r < 500 THEN {q}
        ELSE IF r > 500 THEN {q + 1}
        ELSE {q, q + 1}

\* The 'cost' entries estimate_tts_cost can return for a text of char_count
\* characters: round((char_count / 1000) * PRICING['tts'], 4).
estimate_tts_cost(char_count) == Round4(char_count * tts_rate)

\* A caller applies split_text_into_chunks to its text and chunk size.
SplitTextIntoChunks ==
    /\ fpc = "split"
    /\ split_chunks' = split_text_into_chunks(text, chunk_size)
    /\ fpc' = "split_done"
    /\ UNCHANGED <<text, chunk_size, char_counts, tts_costs, book_estimate>>
    /\ UNCHANGED <<rvars, prev, pvars, files, writes>>

\* A caller applies estimate_tts_cost to a text of a characters, to one of b
\* characters and to one of a + b characters.
EstimateTtsCost ==
    /\ fpc = "cost"
    /\ tts_costs' \in estimate_tts_cost(char_counts[1])
                      \X estimate_tts_cost(char_counts[2])
                      \X estimate_tts_cost(char_counts[1] + char_counts[2])
    /\ fpc' = "cost_done"
    /\ UNCHANGED <<text, chunk_size, split_chunks, char_counts,
                   book_estimate>>
    /\ UNCHANGED <<rvars, prev, pvars, files, writes>>

estimate_full_book_cost_to_len(t, n) ==
    LET starts == PyRange(0, Len(t) + 1, n)
        chunks_ == [k \in 1..Len(starts) |->
                      Slice(t, starts[k], starts[k] + n)]
    IN  [number_of_chunks |-> Len(chunks_),
         chunk_estimates |->
             [k \in 1..Len(chunks_) |->
                 [chunk_number |-> k, characters |-> Len(chunks_[k])]]]

\* estimate_full_book_cost(text, chunk_size): its own list comprehension
\* text[i:i+chunk_size] for i in range(0, len(text), chunk_size), then for
\* i, chunk in enumerate(chunks, 1) one entry with 'chunk_number': i and the
\* chunk's costs, of which the 'characters' of its text_to_speech estimate
\* are kept here.
estimate_full_book_cost(t, n) ==
    LET starts == PyRange(0, Len(t), n)
        chunks_ == [k \in 1..Len(starts) |->
                      Slice(t, starts[k], starts[k] + n)]
    IN  [number_of_chunks |-> Len(chunks_),
         chunk_estimates |->
             [k \in 1..Len(chunks_) |->
                 [chunk_number |-> k, characters |-> Len(chunks_[k])]]]

\* The caller that split its text applies estimate_full_book_cost to the
\* same text and chunk size.
EstimateFullBookCost ==
    /\ fpc = "split_done"
    /\ book_estimate' = estimate_full_book_cost(text, chunk_size)
    /\ fpc' = "book_done"
    /\ UNCHANGED <<text, chunk_size, split_chunks, char_counts, tts_costs>>
    /\ UNCHANGED <<rvars, prev, pvars, files, writes>>

InitFunctions ==
    /\ InitGovernor
    /\ prev = NoPrev
    /\ ppc = "functions"
    /\ chunks = 0
    /\ pos = 0
    /\ chunk_number = 0
    /\ all_video_parts = <<>>
    /\ analysis = "unset"
    /\ files = {}
    /\ stages = {}
    /\ started = <<>>
    /\ finished = {}
    /\ failed = {}
    /\ concat_input = <<>>
    /\ writes = {}
    /\ split_chunks = <<>>
    /\ tts_costs = <<0, 0, 0>>
    /\ book_estimate = NoEstimate
    /\ \/ /\ fpc = "split"
          /\ text \in Texts
          /\ chunk_size \in ChunkSizes
          /\ char_counts = <<0, 0>>
       \/ /\ fpc = "cost"
          /\ text = <<>>
          /\ chunk_size = 1
          /\ char_counts \in CharCounts \X CharCounts

NextFunctions ==
    \/ SplitTextIntoChunks
    \/ EstimateTtsCost
    \/ EstimateFullBookCost

SpecFunctions == InitFunctions /\ [][NextFunctions]_vars

\* ------------------------------------------- claims on retry_on_rate_limit

Scripted == op.name = "func"

\* C1: an operation that raises capacity exhaustion on every invocation is
\* invoked exactly max_retries = 10 times by one call, which then returns
\* None; no exception reaches the caller.
C1_ExhaustionReturnsNone ==
    (Scripted /\ op.fails >= 10) =>
        /\ rpc # "raised"
        /\ raisedErr = "none"
        /\ invocations <= 10
        /\ Ended => (rpc = "returned" /\ result = "None" /\ invocations = 10)

C1_Witness ==
    /\ Scripted /\ op.fails >= 10
    /\ rpc = "returned" /\ result = "None" /\ invocations = 10

\* C2: an error that is no capacity exhaustion is re-raised to the caller on
\* the attempt that met it: the same error, no cooldown for it, no further
\* invocation; on the first invocation, exactly one attempt is made.
C2_HardFailurePropagates ==
    (Scripted /\ op.fails < 10 /\ op.end \in HardErrors) =>
        /\ invocations <= op.fails + 1
        /\ rpc = "cooldown" => invocations <= op.fails
        /\ cooldowns <= op.fails
        /\ Ended => /\ rpc = "raised"
                    /\ raisedErr = op.end
                    /\ result = "unset"
                    /\ invocations = op.fails + 1
                    /\ cooldowns = op.fails

C2_Witness ==
    /\ Scripted /\ op.fails = 0 /\ op.end = "APIConnectionError"
    /\ rpc = "raised" /\ raisedErr = "APIConnectionError"
    /\ invocations = 1 /\ cooldowns = 0 /\ sleeps = 0

\* C3: for every k < 10, an operation that raises capacity exhaustion on its
\* first k invocations and returns on invocation k+1 makes the call return
\* that value after exactly k+1 invocations.
C3_SuccessAfterFailures ==
    (Scripted /\ op.fails < 10 /\ op.end \in ReturnValues /\ Ended) =>
        /\ rpc = "returned"
        /\ result = op.end
        /\ invocations = op.fails + 1

C3_Witness ==
    /\ Scripted /\ op.fails = 9 /\ op.end = "value"
    /\ rpc = "returned" /\ result = "value" /\ invocations = 10

\* C8: every attempt after the first starts only when at least 3600 seconds
\* have passed since the preceding capacity-exhaustion error (now counts the
\* seconds since that error); the first attempt is made without any wait.
C8_CooldownBeforeRetry ==
    rpc \in {"while", "try"} =>
        /\ invocations >= 1 => (now >= 3600 /\ cooldowns = invocations)
        /\ invocations = 0 => (sleeps = 0 /\ cooldowns = 0 /\ now = 0)

C8_Witness ==
    rpc = "try" /\ invocations = 2 /\ cooldowns = 2 /\ now > 3600

\* C9: two calls that run the same operation and differ at most in
\* estimated_tokens make the same number of attempts, wait the same number
\* of cooldowns and end with the same outcome.
C9_EstimateHasNoInfluence ==
    (Ended /\ prev.outcome # "none" /\ prev.op = op) =>
        /\ prev.invocations = invocations
        /\ prev.cooldowns = cooldowns
        /\ prev.outcome = rpc
        /\ prev.result = result
        /\ prev.raisedErr = raisedErr

C9_Witness ==
    /\ Ended /\ prev.outcome # "none" /\ prev.op = op
    /\ prev.estimated_tokens # estimated_tokens
    /\ invocations = 3 /\ cooldowns = 2

\* C10: the attempt counter of a call counts the capacity errors of that call
\* alone, whatever calls came before: a call makes min(k+1, 10) invocations
\* of an operation that fails k times first, also right after a call that
\* used up its 10 attempts.
C10_FreshCallState ==
    /\ rpc # "idle" => (attempt = capErrors /\ attempt <= invocations)
    /\ (rpc = "cooldown") => (start_time = 0 /\ now <= 3600 + MaxOvershoot)
    /\ (Scripted /\ Ended) => invocations = Min(op.fails + 1, 10)

C10_Witness ==
    /\ prev.exhausted
    /\ Scripted /\ op.fails = 9 /\ op.end = "value"
    /\ rpc = "returned" /\ result = "value" /\ invocations = 10

\* --------------------------------------------- claims on the book pipeline

LaterStages == {"Illustrate", "Narrate", "Caption", "Assemble"}

\* C4: when the Analyze stage of a chunk fails (analyze_text_context returns
\* None), no Illustrate, Narrate, Caption or Assemble operation is invoked
\* for that chunk and process_chunk reports the chunk as failed.
C4_AnalyzeFailureAbortsChunk ==
    analysis = "None" =>
        /\ stages \cap LaterStages = {}
        /\ chunk_number \in finished => chunk_number \in failed

\* C5: a stage failure of one chunk, soft or hard, never ends the book run:
\* no exception of process_chunk leaves process_book.
C5_StageFailureNeverEndsRun ==
    ppc # "chunk_error"

IsSucceeded(v) == v[2] \notin failed

\* The videos of the chunks whose run succeeded, by increasing chunk number.
SuccessfulVideos ==
    SelectSeq([k \in 1..chunks |-> VideoFile(k)], IsSucceeded)

\* C6: the list handed to combine_videos holds exactly the videos of the
\* chunks whose pipeline run succeeded, by increasing chunk number, and no
\* entry for a failed chunk.
C6_ConcatenatesSuccessfulOnly ==
    ppc = "combine" => concat_input = SuccessfulVideos

\* C7: process_chunk is called with the chunk numbers 1, 2, ... in
\* increasing order without gap or repetition, each call only after the
\* preceding one has ended, and with all of 1..N once the loop is through.
C7_ChunksInOrder ==
    /\ started = [k \in 1..Len(started) |-> k]
    /\ Len(started) <= chunks
    /\ finished \subseteq 1..Len(started)
    /\ 1..(Len(started) - 1) \subseteq finished
    /\ ppc = "loop" => finished = 1..Len(started)
    /\ ppc \in {"combine", "combine_error", "cleanup", "cleanup_error", "done"}
          => (Len(started) = chunks /\ finished = 1..chunks)

C7_Witness ==
    /\ ppc = "combine"
    /\ chunks = 3
    /\ started = <<1, 2, 3>>
    /\ finished = {1, 2, 3}

\* The chunk numbers whose process_chunk call returned a video.
Succeeded == finished \ failed

\* C11: cleanup_temp_files removes only video, audio and image files of
\* chunks whose pipeline run succeeded; files of a failed chunk and files of
\* no chunk of this run stay.
C11_CleanupRemovesOnlySucceeded ==
    [][ppc = "cleanup" =>
          \A f \in files \ files' :
              f[1] \in {"video", "audio", "image"} /\ f[2] \in Succeeded]_vars

\* C12: a removal that fails during cleanup is not propagated: no exception
\* of cleanup_temp_files leaves process_book.
C12_CleanupFailureNotPropagated ==
    ppc # "cleanup_error"

\* ------------------------------------------- claims on the pure functions

RECURSIVE Concat(_)
\* ''.join(q)
Concat(q) == IF q = <<>> THEN <<>> ELSE Head(q) \o Concat(Tail(q))

\* ceil(a / b) for b >= 1
CeilDiv(a, b) == (a + b - 1) \div b

\* C13: for every chunk size n >= 1 and every text of length L, also 0,
\* split_text_into_chunks returns ceil(L/n) chunks, each of length n except
\* possibly the last, which is non-empty and of length at most n, and the
\* chunks concatenated in order are the text.
C13_SplitRoundTrip ==
    fpc = "split_done" =>
        /\ Len(split_chunks) = CeilDiv(Len(text), chunk_size)
        /\ \A k \in 1..(Len(split_chunks) - 1) :
              Len(split_chunks[k]) = chunk_size
        /\ split_chunks # <<>> =>
              Len(split_chunks[Len(split_chunks)]) \in 1..chunk_size
        /\ Concat(split_chunks) = text

C13_Witness ==
    /\ fpc = "split_done"
    /\ Len(text) = 4
    /\ chunk_size = 3
    /\ Len(split_chunks) = 2
    /\ Len(split_chunks[2]) = 1

\* C14 as stated: the cost of a text of a+b characters equals cost(a) +
\* cost(b) for all a and b, and the cost of 1000 characters is the rate.
C14_CostIsLinear ==
    fpc = "cost_done" =>
        /\ tts_costs[3] = tts_costs[1] + tts_costs[2]
        /\ char_counts[1] = 1000 => tts_costs[1] = tts_rate

\* The returned cost is within half a unit of 0.0001 dollar of
\* char_count * 0.015 / 1000.
WithinHalfUnit(cost, char_count) ==
    /\ 1000 * cost - char_count * tts_rate <= 500
    /\ char_count * tts_rate - 1000 * cost <= 500

\* C14: estimate_tts_cost returns 0.015 * char_count / 1000 rounded to four
\* decimals, so the cost of a text of a+b characters differs from cost(a) +
\* cost(b) by at most 0.0001 dollar; for 1000 characters the returned cost
\* is the rate 0.015 exactly.
C14_CostLinearUpToRounding ==
    fpc = "cost_done" =>
        /\ WithinHalfUnit(tts_costs[1], char_counts[1])
        /\ WithinHalfUnit(tts_costs[2], char_counts[2])
        /\ WithinHalfUnit(tts_costs[3], char_counts[1] + char_counts[2])
        /\ tts_costs[3] - (tts_costs[1] + tts_costs[2]) \in {-1, 0, 1}
        /\ char_counts[1] = 1000 => tts_costs[1] = tts_rate

C14_Witness ==
    /\ fpc = "cost_done"
    /\ char_counts = <<4, 4>>
    /\ tts_costs = <<1, 1, 1>>

\* ------------------------------------ further claims on the book pipeline

\* C15: when the retried call of the Illustrate or of the Narrate stage
\* returns None, process_chunk returns None to process_book at once: no
\* exception, no further stage of the chunk, no further invocation and no
\* file written.
C15_SoftFailureAbortsChunk ==
    [][(ppc \in {"illustrate", "narrate"} /\ rpc = "returned"
           /\ result = "None") =>
          /\ ppc' = "loop"
          /\ all_video_parts' = Append(all_video_parts, NoneValue)
          /\ chunk_number \in failed'
          /\ stages' = stages
          /\ invocations' = invocations
          /\ writes' = writes]_vars

C15_Witness ==
    /\ ppc = "loop"
    /\ op.name = "_do_tts"
    /\ result = "None"
    /\ chunk_number \in failed
    /\ all_video_parts[Len(all_video_parts)] = NoneValue
    /\ stages = {"Analyze", "Illustrate", "Narrate"}

\* C16: a chat completion that returns content json.loads rejects is not
\* retried: the invocation that returned it is the last one of the call (one
\* invocation when no capacity error came before), no cooldown follows it,
\* and analyze_text_context returns None instead of raising.
C16_MalformedNotRetried ==
    (op.name = "_do_analysis" /\ result = "malformed") =>
        /\ rpc \in {"returned", "idle"}
        /\ ppc \in {"analyze", "analyzed"}
        /\ invocations = capErrors + 1
        /\ cooldowns = capErrors
        /\ sleeps = 0 => invocations = 1
        /\ ppc = "analyzed" => analysis = "None"

C16_Witness ==
    /\ ppc = "analyzed"
    /\ result = "malformed"
    /\ analysis = "None"
    /\ invocations = 1
    /\ cooldowns = 0

PerChunkKinds == {"image", "audio", "video"}

\* The positions of process_book inside a process_chunk call.
ChunkPositions == {"analyze", "analyzed", "illustrate", "narrate", "caption"}

\* C18: while process_chunk runs for chunk i, every image, audio or video
\* file that is created, rewritten or removed carries the index i; the
\* files of every other chunk stay as they are.
C18_OtherChunksFilesUntouched ==
    [][(ppc \in ChunkPositions) =>
          (\A f \in (files \ files') \cup (files' \ files)
                       \cup (writes' \ writes) :
               f[1] \in PerChunkKinds => f[2] = chunk_number)]_vars

C18_Witness ==
    /\ chunk_number = 2
    /\ ppc = "loop"
    /\ {ImageFile(2), AudioFile(2), VideoFile(2)} \subseteq writes
    /\ {ImageFile(1), AudioFile(1), VideoFile(1)} \subseteq files

\* ----------------------------------- further claims on retry_on_rate_limit

InProgress == rpc \in {"while", "try", "cooldown"}

\* C17: every call of retry_on_rate_limit ends, given that each invocation
\* of the operation returns or raises and the clock advances: as a return
\* of the operation's value, as a raised hard error or as None after 10
\* capacity errors, never after more than 10 invocations, and with no
\* invocation after the end.
C17_CallTerminates ==
    /\ InProgress ~> Ended
    /\ [](invocations <= 10)
    /\ [](Ended =>
            \/ rpc = "returned" /\ attempt < 10 /\ result \in op.returns
                 /\ raisedErr = "none"
            \/ rpc = "raised" /\ raisedErr \in HardErrors /\ result = "unset"
            \/ rpc = "returned" /\ attempt = 10 /\ result = "None"
                 /\ raisedErr = "none")
    /\ [][Ended => (invocations' = invocations /\ rpc' \in {rpc, "idle"})]_vars

C17_Witness ==
    /\ rpc = "raised"
    /\ raisedErr \in HardErrors
    /\ invocations = 5
    /\ cooldowns = 4

\* C19: a cooldown is entered only after a capacity error on the attempts 1
\* to 9, so a call waits at most 9 cooldowns, one less than its attempts
\* when it has ended; the 10th capacity error returns None at once, with no
\* wait after it.
C19_CooldownsOneLessThanAttempts ==
    /\ cooldowns <= 9
    /\ rpc = "cooldown" =>
          (attempt \in 1..9 /\ capErrors = attempt /\ cooldowns = attempt - 1)
    /\ (Ended /\ invocations >= 1) => cooldowns = invocations - 1
    /\ (rpc = "returned" /\ attempt >= 10) =>
          (invocations = 10 /\ cooldowns = 9 /\ now = 0)

C19_Witness ==
    /\ rpc = "returned"
    /\ result = "None"
    /\ capErrors = 10
    /\ cooldowns = 9
    /\ sleeps >= 9
    /\ now = 0

\* C20: the call returns the value of the first invocation that does not
\* raise, as it is; it returns None only when all 10 attempts ended in a
\* capacity error or when that invocation itself returned None, and a
\* return other than None is the value the operation returned.
C20_ReturnsFirstNonRaisingValue ==
    (Scripted /\ rpc = "returned") =>
        /\ raisedErr = "none"
        /\ result # "None" =>
              /\ result = op.end
              /\ invocations = op.fails + 1
              /\ capErrors = op.fails
        /\ result = "None" =>
              \/ capErrors = 10 /\ invocations = 10
              \/ /\ op.end = "None"
                 /\ invocations = op.fails + 1
                 /\ capErrors = op.fails

C20_Witness ==
    /\ Scripted /\ op.fails = 2 /\ op.end = "None"
    /\ rpc = "returned"
    /\ result = "None"
    /\ invocations = 3
    /\ capErrors = 2

\* C21: for every text and every chunk size n >= 1, estimate_full_book_cost
\* reports as number_of_chunks the number of chunks split_text_into_chunks
\* returns for the same text and n, and its chunk_estimates are one entry
\* per chunk, with the chunk numbers 1..number_of_chunks in order, each for
\* the chunk split_text_into_chunks returns at that place.
C21_EstimateAgreesOnChunking ==
    fpc = "book_done" =>
        /\ book_estimate.number_of_chunks = Len(split_chunks)
        /\ Len(book_estimate.chunk_estimates) = Len(split_chunks)
        /\ \A k \in 1..Len(split_chunks) :
              /\ book_estimate.chunk_estimates[k].chunk_number = k
              /\ book_estimate.chunk_estimates[k].characters
                    = Len(split_chunks[k])

C21_Witness ==
    /\ fpc = "book_done"
    /\ Len(text) = 4
    /\ chunk_size = 2
    /\ Len(split_chunks) = 2
    /\ book_estimate.number_of_chunks = 2
    /\ book_estimate.chunk_estimates
          = <<[chunk_number |-> 1, characters |-> 2],
              [chunk_number |-> 2, characters |-> 2]>>

====
